---- MODULE Spec2Model ----
(***************************************************************************)
(* A model of dbrw: the windowed table reader (DbReader) and, further      *)
(* down, the retrying bulk writer (DbWriter) with the parts of DbUtilities *)
(* they call.                                                              *)
(***************************************************************************)
EXTENDS Integers, Sequences, FiniteSets, TLC

\* ------------------------------------------------------------------ bounds
\* Rows of the table read by the Reader are identified by their sort key.
MaxKey == 3
\* Largest page size (value of CACHE_MAX_ROWS) the model tries.
MaxPage == 2
\* Inserts and deletes other sessions make during one run of the Reader.
MaxMutations == 2
\* next() calls the caller makes after the end of the sequence was signalled.
MaxEnds == 2

Keys == 1..MaxKey
PageSizes == 1..MaxPage

\* The marker for "next() did not index the cache".
NoRead == -1

VARIABLES
    \* --- the database table the Reader is bound to (rows under its filter)
    table,
    \* --- Reader configuration
    cache_max_rows,   \* CACHE_MAX_ROWS
    sort_ascending,   \* DbReader.__sort_ascending
    \* --- Reader fields set by __iter__ / __next__
    started,          \* __iter__ has completed at least once (the fields exist)
    row_count, cache, cache_min, cache_max, data_pos,
    \* --- what the caller of the Reader observed
    r_res,            \* outcome of the last Reader call
    yielded,          \* rows returned by next() since the last start()
    read_idx,         \* cache index the last next() read, or NoRead
    fetches,          \* offsets of the page fetches since the last start()
    count_queries,    \* count queries of the last completed start() and the next() calls since
    ends,             \* end-of-sequence signals since the last start()
    prior,            \* <<data_pos, row_count>> as the last start() found them, <<-1,-1>> at first
    mutations,        \* inserts and deletes by other sessions so far
    \* --- the database the Writer writes to
    db_schema,        \* the Writer's schema exists
    db_tables,        \* table name -> the table (NoTable when absent)
    conns,            \* status of every connection; conns[1] is the one DbUtilities holds
    \* --- Writer fields
    auto_create_tables, created_tables, table_to_statement_map,
    cnn,              \* DbWriter.__cnn, an index into conns
    \* --- the running write_table_data call
    pc,               \* "idle" (no call running) or "loop" (inside the loops)
    table_data,       \* the batch: a sequence of [name, rows, cols], in dict order
    max_attempts,
    tbl,              \* position of the for loop in table_data
    attempts,
    ret,              \* what the last call returned: "none", "true", "false", "raised"
    calls,            \* calls of write_table_data so far
    \* --- what happened during the running (or last) call
    trace,            \* its attempts: table position, number, success, and the
                      \* status of the held connection when the loop body ended
    sql_log,          \* the DDL it issued and the INSERTs it committed, in order
    commits, rollbacks,
    opened,           \* connections it opened
    at_begin,         \* the database and the Writer's caches as the call found them
    \* --- over the Writer's lifetime
    n_create,         \* table name -> CREATE TABLE statements issued
    n_build           \* table name -> INSERT templates built

rvars == <<table, cache_max_rows, sort_ascending, started, row_count, cache,
           cache_min, cache_max, data_pos, r_res, yielded, read_idx, fetches,
           count_queries, ends, prior, mutations>>

wvars == <<db_schema, db_tables, conns, auto_create_tables, created_tables,
           table_to_statement_map, cnn, pc, table_data, max_attempts, tbl, attempts,
           ret, calls, trace, sql_log, commits, rollbacks, opened, at_begin,
           n_create, n_build>>

\* --- the session: its pool and the scopes opened through it
VARIABLES
    checked_out,      \* connections of the pool handed out and not put back
    scopes            \* per scope: kind, state, how it ended, putconn calls

svars == <<checked_out, scopes>>

\* --- DbUtilities called directly
VARIABLES
    u_db,             \* the database and the connection DbUtilities holds
    u_call            \* the last call: its name, arguments and outcome

uvars == <<u_db, u_call>>

vars == <<rvars, wvars, svars, uvars>>

\* ------------------------------------------------------ database queries

Min(a, b) == IF a <= b THEN a ELSE b

RECURSIVE SortAsc(_)
SortAsc(S) ==
    IF S = {} THEN <<>>
    ELSE LET m == CHOOSE x \in S : \A y \in S : x <= y
         IN  <<m>> \o SortAsc(S \ {m})

Reverse(s) == [i \in 1..Len(s) |-> s[Len(s) + 1 - i]]

\* SELECT * ... ORDER BY sort_column ASC|DESC
SortedRows(T, ascending) == IF ascending THEN SortAsc(T) ELSE Reverse(SortAsc(T))

get_table_data_no_offset(T, ascending, limit, offset, ok) ==
    IF ~ok THEN <<>>
    ELSE SubSeq(SortedRows(T, ascending), 1, Min(limit, Cardinality(T)))

\* get_table_data if it sent no LIMIT.
get_table_data_no_limit(T, ascending, limit, offset, ok) ==
    IF ~ok THEN <<>>
    ELSE SubSeq(SortedRows(T, ascending), offset + 1, Cardinality(T))

\* DbUtilities.get_table_data: ORDER BY, LIMIT limit OFFSET offset through
\* execute(), which returns [] when the query fails.
get_table_data(T, ascending, limit, offset, ok) ==
    IF ~ok THEN <<>>
    ELSE SubSeq(SortedRows(T, ascending), offset + 1, Min(offset + limit, Cardinality(T)))

\* DbUtilities.get_table_row_count: flatten_data(execute(COUNT))[0].  The
\* result is a sequence: <<n>> on success, <<>> (so that [0] raises) on failure.
get_table_row_count(T, ok) == IF ok THEN <<Cardinality(T)>> ELSE <<>>

\* -------------------------------------------------------------- Reader

InitReader ==
    /\ table \in SUBSET Keys
    /\ cache_max_rows \in PageSizes
    /\ sort_ascending \in BOOLEAN
    /\ started = FALSE
    /\ row_count = 0
    /\ cache = <<>>
    /\ cache_min = 0
    /\ cache_max = -1
    /\ data_pos = 0
    /\ r_res = "none"
    /\ yielded = <<>>
    /\ read_idx = NoRead
    /\ fetches = <<>>
    /\ count_queries = 0
    /\ ends = 0
    /\ prior = <<-1, -1>>
    /\ mutations = 0

ReaderStart_keep_pos(countOk, fetchOk, T2) ==
    LET cnt  == get_table_row_count(table, countOk)
        page == get_table_data(T2, sort_ascending, cache_max_rows, 0, fetchOk)
    IN  /\ cnt # <<>>
        /\ started' = TRUE
        /\ row_count' = cnt[1]
        /\ cache' = page
        /\ cache_min' = 0
        /\ cache_max' = Len(page) - 1
        /\ data_pos' = data_pos
        /\ r_res' = "started"
        /\ yielded' = <<>>
        /\ read_idx' = NoRead
        /\ fetches' = <<0>>
        /\ count_queries' = 1
        /\ ends' = 0
        /\ prior' = IF started THEN <<data_pos, row_count>> ELSE <<-1, -1>>
        /\ table' = T2
        /\ mutations' = IF T2 = table THEN mutations ELSE mutations + 1
        /\ UNCHANGED <<cache_max_rows, sort_ascending>>

\* DbReader.__iter__.  The count query reads the table as it is; T2 is the
\* table as the page query, which runs after it, finds it (another session
\* may have committed in between).
ReaderStart(countOk, fetchOk, T2) ==
    LET cnt  == get_table_row_count(table, countOk)
        page == get_table_data(T2, sort_ascending, cache_max_rows, 0, fetchOk)
    IN  IF cnt = <<>>
        THEN \* [0] on an empty list: IndexError leaves __iter__ at line 42
             /\ r_res' = "error"
             /\ UNCHANGED <<table, cache_max_rows, sort_ascending, started, row_count,
                            cache, cache_min, cache_max, data_pos, yielded, read_idx,
                            fetches, count_queries, ends, prior, mutations>>
        ELSE /\ started' = TRUE
             /\ row_count' = cnt[1]
             /\ cache' = page
             /\ cache_min' = 0
             /\ cache_max' = Len(page) - 1
             /\ data_pos' = 0
             /\ r_res' = "started"
             /\ yielded' = <<>>
             /\ read_idx' = NoRead
             /\ fetches' = <<0>>
             /\ count_queries' = 1
             /\ ends' = 0
             /\ prior' = IF started THEN <<data_pos, row_count>> ELSE <<-1, -1>>
             /\ table' = T2
             /\ mutations' = IF T2 = table THEN mutations ELSE mutations + 1
             /\ UNCHANGED <<cache_max_rows, sort_ascending>>

ReaderNext_strict_end(fetchOk) ==
    /\ started
    /\ IF data_pos > row_count
       THEN /\ r_res' = "stop"
            /\ read_idx' = NoRead
            /\ UNCHANGED <<cache, cache_min, cache_max, data_pos, yielded, fetches>>
       ELSE LET page == get_table_data(table, sort_ascending, cache_max_rows, data_pos, fetchOk)
                hit  == data_pos >= cache_min /\ data_pos <= cache_max
                c    == IF hit THEN cache ELSE page
                base == IF hit THEN cache_min ELSE data_pos
            IN  /\ cache' = c
                /\ cache_min' = base
                /\ cache_max' = base + Len(c) - 1
                /\ fetches' = IF hit THEN fetches ELSE Append(fetches, data_pos)
                /\ read_idx' = data_pos - base
                /\ IF data_pos - base < Len(c)
                   THEN /\ r_res' = "row"
                        /\ yielded' = Append(yielded, c[data_pos - base + 1])
                        /\ data_pos' = data_pos + 1
                   ELSE /\ r_res' = "error"
                        /\ UNCHANGED <<yielded, data_pos>>
    /\ ends' = IF data_pos > row_count THEN ends + 1 ELSE ends
    /\ UNCHANGED <<table, cache_max_rows, sort_ascending, started, row_count,
                   count_queries, prior, mutations>>

\* __next__ if it took every page to be full.
ReaderNext_full_window(fetchOk) ==
    IF ~started
    THEN \* the fields do not exist before __iter__: AttributeError
         /\ r_res' = "error"
         /\ UNCHANGED <<table, cache_max_rows, sort_ascending, started, row_count,
                        cache, cache_min, cache_max, data_pos, yielded, read_idx,
                        fetches, count_queries, ends, prior, mutations>>
    ELSE
    /\ IF data_pos >= row_count
       THEN \* StopIteration
            /\ r_res' = "stop"
            /\ read_idx' = NoRead
            /\ UNCHANGED <<cache, cache_min, cache_max, data_pos, yielded, fetches>>
       ELSE IF data_pos >= cache_min /\ data_pos <= cache_max
       THEN \* the row is cached
            /\ read_idx' = data_pos - cache_min
            /\ r_res' = "row"
            /\ yielded' = Append(yielded, cache[data_pos - cache_min + 1])
            /\ data_pos' = data_pos + 1
            /\ UNCHANGED <<cache, cache_min, cache_max, fetches>>
       ELSE \* cache miss: fetch the page that starts at data_pos
            LET page == get_table_data(table, sort_ascending, cache_max_rows, data_pos, fetchOk)
            IN  /\ cache' = page
                /\ cache_min' = data_pos
                /\ cache_max' = data_pos + cache_max_rows - 1
                /\ fetches' = Append(fetches, data_pos)
                /\ read_idx' = 0
                /\ IF Len(page) > 0
                   THEN /\ r_res' = "row"
                        /\ yielded' = Append(yielded, page[1])
                        /\ data_pos' = data_pos + 1
                   ELSE \* cache[0] on an empty page: IndexError, before line 84
                        /\ r_res' = "error"
                        /\ UNCHANGED <<yielded, data_pos>>
    /\ ends' = IF data_pos >= row_count THEN ends + 1 ELSE ends
    /\ UNCHANGED <<table, cache_max_rows, sort_ascending, started, row_count,
                   count_queries, prior, mutations>>


\* __next__ if it counted the rows again on every cache miss.
ReaderNext_recount(fetchOk) ==
    IF ~started
    THEN \* the fields do not exist before __iter__: AttributeError
         /\ r_res' = "error"
         /\ UNCHANGED <<table, cache_max_rows, sort_ascending, started, row_count,
                        cache, cache_min, cache_max, data_pos, yielded, read_idx,
                        fetches, count_queries, ends, prior, mutations>>
    ELSE
    /\ IF data_pos >= row_count
       THEN \* StopIteration
            /\ r_res' = "stop"
            /\ read_idx' = NoRead
            /\ UNCHANGED <<cache, cache_min, cache_max, data_pos, yielded, fetches>>
       ELSE IF data_pos >= cache_min /\ data_pos <= cache_max
       THEN \* the row is cached
            /\ read_idx' = data_pos - cache_min
            /\ r_res' = "row"
            /\ yielded' = Append(yielded, cache[data_pos - cache_min + 1])
            /\ data_pos' = data_pos + 1
            /\ UNCHANGED <<cache, cache_min, cache_max, fetches>>
       ELSE \* cache miss: fetch the page that starts at data_pos
            LET page == get_table_data(table, sort_ascending, cache_max_rows, data_pos, fetchOk)
            IN  /\ cache' = page
                /\ cache_min' = data_pos
                /\ cache_max' = data_pos + Len(page) - 1
                /\ fetches' = Append(fetches, data_pos)
                /\ read_idx' = 0
                /\ IF Len(page) > 0
                   THEN /\ r_res' = "row"
                        /\ yielded' = Append(yielded, page[1])
                        /\ data_pos' = data_pos + 1
                   ELSE \* cache[0] on an empty page: IndexError, before line 84
                        /\ r_res' = "error"
                        /\ UNCHANGED <<yielded, data_pos>>
    /\ row_count' = IF data_pos < row_count /\ ~(data_pos >= cache_min /\ data_pos <= cache_max)
                    THEN Cardinality(table) ELSE row_count
    /\ count_queries' = IF data_pos < row_count /\ ~(data_pos >= cache_min /\ data_pos <= cache_max)
                        THEN count_queries + 1 ELSE count_queries
    /\ ends' = IF data_pos >= row_count THEN ends + 1 ELSE ends
    /\ UNCHANGED <<table, cache_max_rows, sort_ascending, started, prior, mutations>>


\* __next__ if it fetched a page for every row, cached or not.
ReaderNext_refetch(fetchOk) ==
    IF ~started
    THEN /\ r_res' = "error"
         /\ UNCHANGED <<table, cache_max_rows, sort_ascending, started, row_count,
                        cache, cache_min, cache_max, data_pos, yielded, read_idx,
                        fetches, count_queries, ends, prior, mutations>>
    ELSE
    /\ IF data_pos >= row_count
       THEN /\ r_res' = "stop"
            /\ read_idx' = NoRead
            /\ UNCHANGED <<cache, cache_min, cache_max, data_pos, yielded, fetches>>
       ELSE LET page == get_table_data(table, sort_ascending, cache_max_rows, data_pos, fetchOk)
            IN  /\ cache' = page
                /\ cache_min' = data_pos
                /\ cache_max' = data_pos + Len(page) - 1
                /\ fetches' = Append(fetches, data_pos)
                /\ read_idx' = 0
                /\ IF Len(page) > 0
                   THEN /\ r_res' = "row"
                        /\ yielded' = Append(yielded, page[1])
                        /\ data_pos' = data_pos + 1
                   ELSE /\ r_res' = "error"
                        /\ UNCHANGED <<yielded, data_pos>>
    /\ ends' = IF data_pos >= row_count THEN ends + 1 ELSE ends
    /\ UNCHANGED <<table, cache_max_rows, sort_ascending, started, row_count,
                   count_queries, prior, mutations>>

\* __next__ if it rewound to the first row when it signals the end.
ReaderNext_rewind(fetchOk) ==
    IF ~started
    THEN \* the fields do not exist before __iter__: AttributeError
         /\ r_res' = "error"
         /\ UNCHANGED <<table, cache_max_rows, sort_ascending, started, row_count,
                        cache, cache_min, cache_max, data_pos, yielded, read_idx,
                        fetches, count_queries, ends, prior, mutations>>
    ELSE
    /\ IF data_pos >= row_count
       THEN \* StopIteration
            /\ r_res' = "stop"
            /\ read_idx' = NoRead
            /\ data_pos' = 0
            /\ UNCHANGED <<cache, cache_min, cache_max, yielded, fetches>>
       ELSE IF data_pos >= cache_min /\ data_pos <= cache_max
       THEN \* the row is cached
            /\ read_idx' = data_pos - cache_min
            /\ r_res' = "row"
            /\ yielded' = Append(yielded, cache[data_pos - cache_min + 1])
            /\ data_pos' = data_pos + 1
            /\ UNCHANGED <<cache, cache_min, cache_max, fetches>>
       ELSE \* cache miss: fetch the page that starts at data_pos
            LET page == get_table_data(table, sort_ascending, cache_max_rows, data_pos, fetchOk)
            IN  /\ cache' = page
                /\ cache_min' = data_pos
                /\ cache_max' = data_pos + Len(page) - 1
                /\ fetches' = Append(fetches, data_pos)
                /\ read_idx' = 0
                /\ IF Len(page) > 0
                   THEN /\ r_res' = "row"
                        /\ yielded' = Append(yielded, page[1])
                        /\ data_pos' = data_pos + 1
                   ELSE \* cache[0] on an empty page: IndexError, before line 84
                        /\ r_res' = "error"
                        /\ UNCHANGED <<yielded, data_pos>>
    /\ ends' = IF data_pos >= row_count THEN ends + 1 ELSE ends
    /\ UNCHANGED <<table, cache_max_rows, sort_ascending, started, row_count,
                   count_queries, prior, mutations>>

\* DbReader.__next__ (record mode)
ReaderNext(fetchOk) ==
    IF ~started
    THEN \* the fields do not exist before __iter__: AttributeError
         /\ r_res' = "error"
         /\ UNCHANGED <<table, cache_max_rows, sort_ascending, started, row_count,
                        cache, cache_min, cache_max, data_pos, yielded, read_idx,
                        fetches, count_queries, ends, prior, mutations>>
    ELSE
    /\ IF data_pos >= row_count
       THEN \* StopIteration
            /\ r_res' = "stop"
            /\ read_idx' = NoRead
            /\ UNCHANGED <<cache, cache_min, cache_max, data_pos, yielded, fetches>>
       ELSE IF data_pos >= cache_min /\ data_pos <= cache_max
       THEN \* the row is cached
            /\ read_idx' = data_pos - cache_min
            /\ r_res' = "row"
            /\ yielded' = Append(yielded, cache[data_pos - cache_min + 1])
            /\ data_pos' = data_pos + 1
            /\ UNCHANGED <<cache, cache_min, cache_max, fetches>>
       ELSE \* cache miss: fetch the page that starts at data_pos
            LET page == get_table_data(table, sort_ascending, cache_max_rows, data_pos, fetchOk)
            IN  /\ cache' = page
                /\ cache_min' = data_pos
                /\ cache_max' = data_pos + Len(page) - 1
                /\ fetches' = Append(fetches, data_pos)
                /\ read_idx' = 0
                /\ IF Len(page) > 0
                   THEN /\ r_res' = "row"
                        /\ yielded' = Append(yielded, page[1])
                        /\ data_pos' = data_pos + 1
                   ELSE \* cache[0] on an empty page: IndexError, before line 84
                        /\ r_res' = "error"
                        /\ UNCHANGED <<yielded, data_pos>>
    /\ ends' = IF data_pos >= row_count THEN ends + 1 ELSE ends
    /\ UNCHANGED <<table, cache_max_rows, sort_ascending, started, row_count,
                   count_queries, prior, mutations>>

\* Another session inserts a row that matches the Reader's filter.
InsertRow ==
    \E k \in Keys \ table :
        /\ mutations < MaxMutations
        /\ mutations' = mutations + 1
        /\ table' = table \cup {k}
        /\ UNCHANGED <<cache_max_rows, sort_ascending, started, row_count, cache,
                       cache_min, cache_max, data_pos, r_res, yielded, read_idx,
                       fetches, count_queries, ends, prior>>

\* Another session deletes a row.
DeleteRow ==
    \E k \in table :
        /\ mutations < MaxMutations
        /\ mutations' = mutations + 1
        /\ table' = table \ {k}
        /\ UNCHANGED <<cache_max_rows, sort_ascending, started, row_count, cache,
                       cache_min, cache_max, data_pos, r_res, yielded, read_idx,
                       fetches, count_queries, ends, prior>>

\* ------------------------------------------- DbUtilities: DDL and DML

\* The tables a batch may name.
Tables == {"t", "u"}

\* SEQUENCE_COL_NAME
SeqCol == "seq"

\* A column key of a row that is not a str (a dict may have one):
\* escape_id() of it raises AttributeError.
NonStr == "<not a str>"

Range(s) == {s[i] : i \in DOMAIN s}
ColNames(cols) == [i \in 1..Len(cols) |-> cols[i].name]
HasNonStr(row) == \E i \in 1..Len(row) : row[i].name = NonStr
NoDuplicates(s) == \A i, j \in 1..Len(s) : s[i] = s[j] => i = j

\* A table of the Writer's schema in the database.
NoTable == [exists |-> FALSE, cols |-> <<>>, pk |-> "", rows |-> 0]

\* A statement handed to the database: its kind, its table, its columns.
Stmt(op, t, cols) == [op |-> op, tbl |-> t, cols |-> cols]

\* The calls of DbUtilities.execute made by create_table, each of which may
\* fail in the database (execute logs the failure and returns [] or None).
ExecSteps == {"schemas", "create_schema", "create_table",
              "pk_schemas", "pk_tables", "pk_columns", "add_pk"}

\* DbUtilities.execute on the connection DbUtilities holds (status D.c1):
\* the statement runs when that connection is usable and the database does
\* not fail it.  In a failed transaction the statement is refused.
ExecRuns(D, faulty) == D.c1 = "open" /\ ~faulty

\* ... and leaving "with self.get_connection() as cnn" ends the transaction:
\* a failed one is rolled back, which makes the connection usable again.
AfterExec(D) == [D EXCEPT !.c1 = IF @ = "aborted" THEN "open" ELSE @]

\* DbUtilities.create_table_from_values, the type of one column: an "if" for
\* datetime, then a separate if/elif/else chain that assigns again.
InferType(kind) ==
    LET first  == IF kind = "datetime" THEN "timestamptz" ELSE "unset"
        second == IF kind = "bool" THEN "bool"
                  ELSE IF kind = "int" THEN "bigint"
                  ELSE IF kind = "float" THEN "double precision"
                  ELSE IF kind = "bytes" THEN "bytea"
                  ELSE "text"
    IN  \* every branch of the chain assigns, so what the first "if" set is lost
        IF second = "unset" THEN first ELSE second

\* table_definition of create_table_from_values: column -> type, first-row order
TableDefinition(row) ==
    [i \in 1..Len(row) |-> [name |-> row[i].name, type |-> InferType(row[i].kind)]]

\* add_primary_key_to_table if it had no guards.
add_primary_key_unguarded(D, table_name, column_name, F) ==
    [D   |-> AfterExec(D),
     log |-> <<Stmt("ADD PRIMARY KEY", table_name, <<column_name>>)>>,
     ret |-> "None"]

\* add_primary_key_to_table if it issued nothing.
add_primary_key_skipped(D, table_name, column_name, F) ==
    [D |-> AfterExec(D), log |-> <<>>, ret |-> "False"]

\* DbUtilities.add_primary_key_to_table under the failures F of its execute
\* calls: the database after it, the DDL it issued, what it returned.
add_primary_key_to_table(D, table_name, column_name, F) ==
    LET g1 == ExecRuns(D, "pk_schemas" \in F) /\ D.schema
        Da == AfterExec(D)
        g2 == ExecRuns(Da, "pk_tables" \in F) /\ Da.tables[table_name].exists
        g3 == ExecRuns(Da, "pk_columns" \in F)
              /\ column_name \in Range(ColNames(Da.tables[table_name].cols))
        ok == /\ ExecRuns(Da, "add_pk" \in F)
              /\ Da.tables[table_name].exists
              /\ column_name \in Range(ColNames(Da.tables[table_name].cols))
              /\ Da.tables[table_name].pk = ""
    IN  IF ~(g1 /\ g2 /\ g3)
        THEN [D |-> Da, log |-> <<>>, ret |-> "False"]
        ELSE [D   |-> IF ok THEN [Da EXCEPT !.tables[table_name].pk = column_name] ELSE Da,
              log |-> <<Stmt("ADD PRIMARY KEY", table_name, <<column_name>>)>>,
              ret |-> "None"]

\* DbUtilities.create_table (overwite_existing False, create_sequence_col
\* True, primary_key_col 'seq') under the failures F of its execute calls.
\* raised: escape_id() of a column name that is not a str.
create_table(D0, table_name, table_definition, F) ==
    LET listed == ExecRuns(D0, "schemas" \in F) /\ D0.schema
        D1     == AfterExec(D0)
        D2     == IF listed THEN D1
                  ELSE [D1 EXCEPT !.schema = @ \/ ExecRuns(D1, "create_schema" \in F)]
        log2   == IF listed THEN <<>> ELSE <<Stmt("CREATE SCHEMA", "", <<>>)>>
        cols   == <<[name |-> SeqCol, type |-> "bigserial"]>> \o table_definition
        ok3    == /\ ExecRuns(D2, "create_table" \in F)
                  /\ D2.schema
                  /\ NoDuplicates(ColNames(cols))
        D3     == IF ok3 /\ ~D2.tables[table_name].exists
                  THEN [D2 EXCEPT !.tables[table_name] =
                            [exists |-> TRUE, cols |-> cols, pk |-> "", rows |-> 0]]
                  ELSE D2
        primary_key_col_is_valid == SeqCol \in Range(ColNames(table_definition))
        pk     == IF primary_key_col_is_valid
                  THEN add_primary_key_to_table(D3, table_name, SeqCol, F)
                  ELSE add_primary_key_to_table(D3, table_name, SeqCol, F)
    IN  IF \E i \in 1..Len(table_definition) : table_definition[i].name = NonStr
        THEN [D |-> D2, log |-> log2, raised |-> TRUE]
        ELSE [D      |-> pk.D,
              log    |-> log2 \o <<Stmt("CREATE TABLE", table_name, ColNames(cols))>> \o pk.log,
              raised |-> FALSE]

\* DbUtilities.create_table_from_values
create_table_from_values(D, table_name, table_data_row, F) ==
    create_table(D, table_name, TableDefinition(table_data_row), F)

\* DbUtilities.build_table_insert_statement: INSERT INTO s.t (cols) VALUES
\* (%s,...), one placeholder for each column of the row.
build_table_insert_statement(table_name, table_data_row) ==
    Stmt("INSERT", table_name, ColNames(table_data_row))

\* Whether the database accepts the multi-row INSERT built from template
\* stmt for batch entry e: the placeholder tuple of the rows must be the one
\* of the template (else "%s" reaches the server), there must be a row, and
\* the table and the columns named must exist.
InsertAccepted(D, stmt, e) ==
    /\ e.rows > 0
    /\ Len(e.cols) = Len(stmt.cols)
    /\ D.schema
    /\ D.tables[stmt.tbl].exists
    /\ Range(stmt.cols) \subseteq Range(ColNames(D.tables[stmt.tbl].cols))

\* ------------------------------------------------------------ DbWriter

\* Bounds of the Writer's runs.
\* Calls of write_table_data in a run on a healthy database.
MaxCalls == 2
\* Largest max_attempts tried.
MaxTries == 2

\* First rows of the batches tried: {"a": 1, "b": "x"}, {"b": "x"} and a row
\* whose column key is not a str.
RowAB == <<[name |-> "a", kind |-> "int"], [name |-> "b", kind |-> "str"]>>
RowB == <<[name |-> "b", kind |-> "str"]>>
RowBad == <<[name |-> NonStr, kind |-> "int"]>>
FirstRows == {RowAB, RowB, RowBad}

\* The table names of a batch, in the order the dict yields them.
BatchNames == {<<>>, <<"t">>, <<"t", "u">>}

\* A table of a batch has no row, or it has one.
RowCounts == {0, 1}

\* A batch: for each table its name, how many rows it has and the columns of
\* its rows (all rows of a batch have the columns of the first).
Batches ==
    {[i \in 1..Len(ns) |->
        [name |-> ns[i], rows |-> n, cols |-> IF n = 0 THEN <<>> ELSE r]] :
        ns \in BatchNames, n \in RowCounts, r \in FirstRows}

\* A table that exists before the Writer is constructed.
ExistingTable ==
    [exists |-> TRUE,
     cols   |-> <<[name |-> SeqCol, type |-> "bigserial"],
                  [name |-> "a", type |-> "bigint"],
                  [name |-> "b", type |-> "text"]>>,
     pk     |-> SeqCol,
     rows   |-> 0]

\* No entry in __table_to_statement_map.
NoStmt == Stmt("none", "", <<>>)

\* Failures of the insert itself: none, cursor() fails, execute() fails,
\* the connection is lost during execute(), commit() fails.
Faults == {"none", "cursor", "execute", "lost", "commit"}

\* What a call finds; repeat: the batch is the one of the call before, which
\* returned True.
Snapshot(batch) ==
    [schema |-> db_schema, tables |-> db_tables, map |-> table_to_statement_map,
     created |-> created_tables, status |-> conns[cnn], held |-> cnn,
     repeat |-> (calls > 0 /\ ret = "true" /\ batch = table_data)]

\* DbWriter.__init__ over a database that may hold the schema and tables.
InitWriter ==
    /\ db_schema \in BOOLEAN
    /\ db_tables \in [Tables -> {NoTable, ExistingTable}]
    /\ ~db_schema => \A t \in Tables : db_tables[t] = NoTable
    /\ conns = <<"open">>
    /\ auto_create_tables \in BOOLEAN
    /\ created_tables = <<>>
    /\ table_to_statement_map = [t \in Tables |-> NoStmt]
    /\ cnn = 1
    /\ pc = "idle"
    /\ table_data = <<>>
    /\ max_attempts = 1
    /\ tbl = 1
    /\ attempts = 0
    /\ ret = "none"
    /\ calls = 0
    /\ trace = <<>>
    /\ sql_log = <<>>
    /\ commits = 0
    /\ rollbacks = 0
    /\ opened = <<>>
    /\ at_begin = [schema |-> db_schema, tables |-> db_tables,
                   map |-> [t \in Tables |-> NoStmt], created |-> <<>>,
                   status |-> "open", held |-> 1, repeat |-> FALSE]
    /\ n_create = [t \in Tables |-> 0]
    /\ n_build = [t \in Tables |-> 0]

\* write_table_data is called: "for table_name in table_data: attempts = 0"
WriteBegin(batches) ==
    /\ pc = "idle"
    /\ calls < MaxCalls
    /\ \E batch \in batches, m \in 1..MaxTries :
          /\ table_data' = batch
          /\ max_attempts' = m
          /\ at_begin' = Snapshot(batch)
    /\ tbl' = 1
    /\ attempts' = 0
    /\ pc' = "loop"
    /\ ret' = "none"
    /\ calls' = calls + 1
    /\ trace' = <<>>
    /\ sql_log' = <<>>
    /\ commits' = 0
    /\ rollbacks' = 0
    /\ opened' = <<>>
    /\ UNCHANGED <<db_schema, db_tables, conns, auto_create_tables, created_tables,
                   table_to_statement_map, cnn, n_create, n_build>>

\* line 91: while attempts <= max_attempts
LoopContinues == attempts <= max_attempts

\* line 96 if it did not look at __created_tables.
ShouldCreate_always(e) == auto_create_tables /\ e.rows > 0

\* line 96: the table is created on this attempt
ShouldCreate(e) ==
    auto_create_tables /\ e.name \notin Range(created_tables) /\ e.rows > 0

\* line 98: the INSERT template is built on this attempt
ShouldPrepare(e) ==
    table_to_statement_map[e.name] = NoStmt /\ e.rows > 0

\* lines 105 and 139 if the new connection came only after max_attempts failures.
IsLastAttempt_after(a) == a = max_attempts + 1

\* line 105 and line 139: this is "the last attempt"
IsLastAttempt(a) == a = max_attempts

\* lines 145-148: roll back after a failed attempt
ShouldRollback(a, st) == a <= max_attempts /\ st # "closed"

\* lines 108-140 on a connection of status st: cursor(), the rendering of the
\* rows into the template, execute() and commit().
InsertStep(D, st, stmt, e, fault) ==
    IF st = "closed" \/ fault = "cursor"
    THEN \* cursor() raises
         [ok |-> FALSE, st |-> st, issued |-> FALSE]
    ELSE IF stmt = NoStmt
    THEN \* statement is None: None.replace raises
         [ok |-> FALSE, st |-> st, issued |-> FALSE]
    ELSE IF fault = "lost"
    THEN [ok |-> FALSE, st |-> "closed", issued |-> TRUE]
    ELSE IF st = "aborted" \/ fault = "execute" \/ ~InsertAccepted(D, stmt, e)
    THEN [ok |-> FALSE, st |-> "aborted", issued |-> TRUE]
    ELSE IF fault = "commit"
    THEN [ok |-> FALSE, st |-> "open", issued |-> TRUE]
    ELSE [ok |-> TRUE, st |-> "open", issued |-> TRUE]

\* One pass through the body of the while loop (lines 92-154) for the table
\* at tbl.  F: the execute calls of create_table the database fails; connOk:
\* create_connection succeeds; fault: what fails in the insert; rbOk:
\* rollback() succeeds.
Attempt(F, connOk, fault, rbOk) ==
    /\ pc = "loop"
    /\ tbl <= Len(table_data)
    /\ LoopContinues
    /\ LET a  == attempts + 1
           e  == table_data[tbl]
           D0 == [schema |-> db_schema, tables |-> db_tables, c1 |-> conns[1]]
           doCreate == ShouldCreate(e)
       IN
       \E cr \in {IF doCreate
                  THEN create_table_from_values(D0, e.name, e.cols, F)
                  ELSE [D |-> D0, log |-> <<>>, raised |-> FALSE]} :
       LET created1 == IF doCreate /\ ~cr.raised
                       THEN Append(created_tables, e.name) ELSE created_tables
           doPrep == ~cr.raised /\ ShouldPrepare(e)
           \* build_table_insert_statement raises, and so does the handler
           \* of __prepare_insert_statement, which reads "statement"
           prepRaised == doPrep /\ HasNonStr(e.cols)
           map1 == IF doPrep /\ ~prepRaised
                   THEN [table_to_statement_map EXCEPT
                            ![e.name] = build_table_insert_statement(e.name, e.cols)]
                   ELSE table_to_statement_map
           early == cr.raised \/ prepRaised
           conns1 == [conns EXCEPT ![1] = cr.D.c1]
           doConn == ~early /\ IsLastAttempt(a)
           newConn == doConn /\ connOk
           conns2 == IF newConn THEN Append(conns1, "open") ELSE conns1
           cnn2 == IF newConn THEN Len(conns2) ELSE cnn
       IN
       \E ins \in {IF early \/ (doConn /\ ~connOk)
                   THEN [ok |-> FALSE, st |-> conns2[cnn2], issued |-> FALSE]
                   ELSE InsertStep(cr.D, conns2[cnn2], map1[e.name], e, fault)} :
       LET doClose == ins.ok /\ IsLastAttempt(a) /\ ins.st # "closed"
           doRollback == ~ins.ok /\ ShouldRollback(a, ins.st)
           raisedOut == doRollback /\ ~rbOk
           stFinal == IF doClose THEN "closed"
                      ELSE IF doRollback /\ rbOk THEN "open"
                      ELSE ins.st
       IN  /\ db_schema' = cr.D.schema
           /\ db_tables' = IF ins.ok
                           THEN [cr.D.tables EXCEPT ![e.name].rows = @ + e.rows]
                           ELSE cr.D.tables
           /\ conns' = [conns2 EXCEPT ![cnn2] = stFinal]
           /\ cnn' = cnn2
           /\ created_tables' = created1
           /\ table_to_statement_map' = map1
           /\ attempts' = a
           /\ pc' = IF ins.ok \/ raisedOut THEN "idle" ELSE "loop"
           /\ ret' = IF ins.ok THEN "true" ELSE IF raisedOut THEN "raised" ELSE ret
           /\ trace' = Append(trace, [t |-> tbl, a |-> a, ok |-> ins.ok, st |-> ins.st])
           /\ sql_log' = sql_log \o cr.log
                            \o (IF ins.ok THEN <<map1[e.name]>> ELSE <<>>)
           /\ commits' = commits + (IF ins.ok THEN 1 ELSE 0)
           /\ rollbacks' = rollbacks + (IF doRollback /\ rbOk THEN 1 ELSE 0)
           /\ opened' = IF newConn THEN Append(opened, cnn2) ELSE opened
           /\ n_create' = [n_create EXCEPT ![e.name] =
                 @ + Cardinality({i \in 1..Len(cr.log) : cr.log[i].op = "CREATE TABLE"})]
           /\ n_build' = [n_build EXCEPT ![e.name] =
                 @ + (IF doPrep /\ ~prepRaised THEN 1 ELSE 0)]
    /\ UNCHANGED <<auto_create_tables, table_data, max_attempts, tbl, calls, at_begin>>

\* The sets of failing execute calls tried: every combination of the calls
\* that change the outcome on their own, and each of the two other guard
\* queries of add_primary_key_to_table failing alone (any failing guard
\* query has the one effect of making it return False).
FaultSets ==
    SUBSET {"schemas", "create_schema", "create_table", "pk_schemas", "add_pk"}
        \cup {{"pk_tables"}, {"pk_columns"}}

\* An attempt on a healthy database over a healthy network.
WriteAttemptHealthy == Attempt({}, TRUE, "none", TRUE)

\* An attempt with every failure the database and the network can produce.
\* The failures of create_table's statements are drawn only when it runs, and
\* the one of create_connection only on the attempt that calls it.
WriteAttempt ==
    /\ pc = "loop" /\ tbl <= Len(table_data)
    /\ \E F \in (IF ShouldCreate(table_data[tbl]) THEN FaultSets ELSE {{}}),
          connOk \in (IF IsLastAttempt(attempts + 1) THEN BOOLEAN ELSE {TRUE}),
          fault \in Faults, rbOk \in BOOLEAN :
          Attempt(F, connOk, fault, rbOk)

\* line 91 is false: the while loop ends and the for loop takes the next table
WriteNextTable ==
    /\ pc = "loop"
    /\ tbl <= Len(table_data)
    /\ ~LoopContinues
    /\ tbl' = tbl + 1
    /\ attempts' = 0
    /\ UNCHANGED <<db_schema, db_tables, conns, auto_create_tables, created_tables,
                   table_to_statement_map, cnn, pc, table_data, max_attempts, ret,
                   calls, trace, sql_log, commits, rollbacks, opened,
                   at_begin, n_create, n_build>>

\* line 156 if it returned True.
WriteReturnFalse_true ==
    /\ pc = "loop"
    /\ tbl > Len(table_data)
    /\ pc' = "idle"
    /\ ret' = "true"
    /\ UNCHANGED <<db_schema, db_tables, conns, auto_create_tables, created_tables,
                   table_to_statement_map, cnn, table_data, max_attempts, tbl,
                   attempts, calls, trace, sql_log, commits, rollbacks, opened,
                   at_begin, n_create, n_build>>

\* line 156: the for loop is over, return False
WriteReturnFalse ==
    /\ pc = "loop"
    /\ tbl > Len(table_data)
    /\ pc' = "idle"
    /\ ret' = "false"
    /\ UNCHANGED <<db_schema, db_tables, conns, auto_create_tables, created_tables,
                   table_to_statement_map, cnn, table_data, max_attempts, tbl,
                   attempts, calls, trace, sql_log, commits, rollbacks, opened,
                   at_begin, n_create, n_build>>

\* ------------------------------------------- DbUtilities called directly

\* The states of a connection: usable, closed, or in a failed transaction.
Statuses == {"open", "closed", "aborted"}

\* A query handed to execute: whether it is a str, whether it returns rows
\* (SELECT) or not (DDL, DML), and whether the server accepts it.
Queries == [str : BOOLEAN, kind : {"select", "modify"}, valid : BOOLEAN]

\* What fails during one execute: nothing, cursor(), cur.execute(),
\* fetchall(), the cnn.commit() of line 152, or the commit made on leaving
\* "with ... as cnn" (which has a transaction to end only if none was
\* committed before).
ExecFaults == {"none", "cursor", "execute", "fetch", "commit", "exit"}

\* DbUtilities.execute(query, params, as_dataframe=False, return_results) on
\* a connection of status c1.  failed: an exception reached the handler of
\* line 156; raised: one left execute.
execute(c1, query, return_results, fault) ==
    LET cursorOk  == c1 # "closed" /\ fault # "cursor"
        ran       == cursorOk /\ c1 = "open" /\ fault # "execute" /\ query.valid
        \* lines 148-150: cur.description is None for a statement without rows
        fetched   == ran /\ return_results /\ query.kind = "select" /\ fault # "fetch"
        \* line 152
        committed == ran /\ ~return_results /\ fault # "commit"
        \* line 155: query.split() of something that is not a str
        logged    == (fetched \/ committed) /\ query.str
        \* leaving the with block: commit after a normal end, else rollback
        exitOk    == logged /\ (committed \/ fault # "exit")
        failed    == ~exitOk
    IN  [ret     |-> IF ~return_results THEN "None"
                     ELSE IF fetched THEN "rows" ELSE "empty",
         failed  |-> failed,
         \* line 157 is not guarded: query.split() again
         raised  |-> failed /\ ~query.str,
         commits |-> IF committed \/ (fetched /\ exitOk) THEN 1 ELSE 0,
         applied |-> committed /\ query.kind = "modify",
         c1      |-> IF c1 = "closed" THEN "closed" ELSE "open"]

\* A database DbUtilities is constructed over.
InitUtilities ==
    /\ u_db \in [schema : BOOLEAN, tables : [Tables -> {NoTable, ExistingTable}],
                  c1 : Statuses]
    /\ ~u_db.schema => \A t \in Tables : u_db.tables[t] = NoTable
    /\ u_call = [op |-> "none"]

\* execute is called.
CallExecute ==
    \E query \in Queries, return_results \in BOOLEAN, fault \in ExecFaults :
        LET out == execute(u_db.c1, query, return_results, fault)
        IN  /\ u_call' = [op |-> "execute", query |-> query,
                          return_results |-> return_results, fault |-> fault,
                          before |-> u_db.c1, out |-> out]
            /\ u_db' = [u_db EXCEPT !.c1 = out.c1]

\* The probe of does_relation_exist: one row, whose column "exists" tells
\* whether to_regclass found the relation.
Probe == [str |-> TRUE, kind |-> "select", valid |-> TRUE]

\* DbUtilities.does_relation_exist: data is that one row when the probe ran
\* and [] when it failed, and the result is data != [].
does_relation_exist(D, table_name, fault) ==
    LET out  == execute(D.c1, Probe, TRUE, fault)
        data == IF out.ret = "rows"
                THEN <<[exists |-> D.schema /\ D.tables[table_name].exists]>>
                ELSE <<>>
    IN  [ret |-> data # <<>>, data |-> data, c1 |-> out.c1]

\* does_relation_exist is called.
CallDoesRelationExist ==
    \E table_name \in Tables, fault \in ExecFaults :
        LET r == does_relation_exist(u_db, table_name, fault)
        IN  /\ u_call' = [op |-> "does_relation_exist", table_name |-> table_name,
                          fault |-> fault, data |-> r.data, ret |-> r.ret]
            /\ u_db' = [u_db EXCEPT !.c1 = r.c1]

\* DbUtilities.create_index_on_table under the failures F of its execute
\* calls: the same three guards, then CREATE INDEX (which the model keeps
\* in the log only).
create_index_on_table(D, table_name, column_name, F) ==
    LET g1 == ExecRuns(D, "ix_schemas" \in F) /\ D.schema
        Da == AfterExec(D)
        g2 == ExecRuns(Da, "ix_tables" \in F) /\ Da.tables[table_name].exists
        g3 == ExecRuns(Da, "ix_columns" \in F)
              /\ column_name \in Range(ColNames(Da.tables[table_name].cols))
    IN  IF ~(g1 /\ g2 /\ g3)
        THEN [D |-> Da, log |-> <<>>, ret |-> "False"]
        ELSE [D   |-> Da,
              log |-> <<Stmt("CREATE INDEX", table_name, <<column_name>>)>>,
              ret |-> "None"]

\* Column names the guarded operations are called with: columns of the
\* existing table, one that no table has, and one that is not a str.
ColumnsTried == {SeqCol, "a", "zz", NonStr}

\* The statement of a guarded operation is built with escape_id, which
\* raises on a name that is not a str.
BuildRaises(log) ==
    \E i \in 1..Len(log) : \E j \in 1..Len(log[i].cols) : log[i].cols[j] = NonStr

\* The record of a call of a guarded operation.
GuardedCall(op, table_name, column_name, F, r) ==
    [op |-> op, table_name |-> table_name, column_name |-> column_name, F |-> F,
     before |-> u_db, log |-> r.log, ret |-> r.ret, raised |-> BuildRaises(r.log)]

\* add_primary_key_to_table is called.
CallAddPrimaryKey ==
    \E table_name \in Tables, column_name \in ColumnsTried,
       F \in SUBSET {"pk_schemas", "pk_tables", "pk_columns", "add_pk"} :
        LET r == add_primary_key_to_table(u_db, table_name, column_name, F)
        IN  /\ u_call' = GuardedCall("add_primary_key_to_table", table_name, column_name, F, r)
            /\ u_db' = r.D

\* create_index_on_table is called.
CallCreateIndex ==
    \E table_name \in Tables, column_name \in ColumnsTried,
       F \in SUBSET {"ix_schemas", "ix_tables", "ix_columns", "create_index"} :
        LET r == create_index_on_table(u_db, table_name, column_name, F)
        IN  /\ u_call' = GuardedCall("create_index_on_table", table_name, column_name, F, r)
            /\ u_db' = r.D

\* ---------------------------------------------------------- escape_id

\* Longest identifier tried.
MaxLen == 4

\* An identifier is a sequence of characters: the four kinds escape_id
\* removes or doubles, one half of the comment marker, and a letter.
Quote == "\""
Chars == {";", ".", "=", "-", Quote, "a"}
Identifiers == UNION {[1..n -> Chars] : n \in 0..MaxLen}

\* str.replace(c, "") for a single character c
RemoveChar(s, c) == SelectSeq(s, LAMBDA x : x # c)

\* str.replace("--", ""): the occurrences found from the left, not overlapping
RECURSIVE RemoveDashPairs(_)
RemoveDashPairs(s) ==
    IF Len(s) < 2 THEN s
    ELSE IF s[1] = "-" /\ s[2] = "-" THEN RemoveDashPairs(SubSeq(s, 3, Len(s)))
    ELSE <<s[1]>> \o RemoveDashPairs(Tail(s))

\* lines 43-47: every double quote is written twice
RECURSIVE DoubleQuotes(_)
DoubleQuotes(s) ==
    IF s = <<>> THEN <<>>
    ELSE (IF Head(s) = Quote THEN <<Quote, Quote>> ELSE <<Head(s)>>)
            \o DoubleQuotes(Tail(s))

\* escape_id if it removed the comment marker before the other characters.
escape_id_dashes_first(identifier) ==
    <<Quote>>
      \o DoubleQuotes(RemoveChar(RemoveChar(RemoveChar(RemoveDashPairs(identifier),
                                                        ";"), "."), "="))
      \o <<Quote>>

\* escape_id: the four replace calls of line 40 in their order, the quotes
\* doubled, the whole in double quotes.
escape_id(identifier) ==
    LET naively_cleaned_identifier ==
            RemoveDashPairs(RemoveChar(RemoveChar(RemoveChar(identifier, ";"), "."), "="))
    IN  <<Quote>> \o DoubleQuotes(naively_cleaned_identifier) \o <<Quote>>

\* escape_id is called.
CallEscapeId ==
    \E identifier \in Identifiers :
        /\ u_call' = [op |-> "escape_id", identifier |-> identifier,
                      ret |-> escape_id(identifier)]
        /\ UNCHANGED u_db

\* The kinds of value a first row may hold: the five that
\* create_table_from_values tests for, and anything else.
ValueKinds == {"datetime", "bool", "int", "float", "bytes", "str", "none"}

\* create_table_from_values infers the types of a first row of one column.
CallInferType ==
    \E kind \in ValueKinds :
        /\ u_call' = [op |-> "infer_type", kind |-> kind,
                      ret |-> TableDefinition(<<[name |-> "a", kind |-> kind]>>)[1].type]
        /\ UNCHANGED u_db

\* ----------------------------------------------------------- DbSession

\* Scopes opened through one session, and the size of its pool.
MaxScopes == 3
PoolSize == 2

ScopeIds == 1..MaxScopes
NoScope == [kind |-> "none", st |-> "new", how |-> "none", puts |-> 0]

\* DbSession.__init__: the pool is full, no scope is open.
InitSession ==
    /\ checked_out = 0
    /\ scopes = [i \in ScopeIds |-> NoScope]

\* get_db_reader / get_db_writer up to the yield: getconn(), then the object
\* is built over that connection.  getconn() raises PoolError when the pool
\* is exhausted and the scope is never entered.
ScopeOpen(i, kind) ==
    /\ scopes[i].st = "new"
    /\ IF checked_out < PoolSize
       THEN /\ checked_out' = checked_out + 1
            /\ scopes' = [scopes EXCEPT ![i] = [@ EXCEPT !.kind = kind, !.st = "open"]]
       ELSE /\ scopes' = [scopes EXCEPT ![i] = [@ EXCEPT !.kind = kind, !.st = "refused"]]
            /\ UNCHANGED checked_out

get_db_reader(i) == ScopeOpen(i, "reader")
get_db_writer(i) == ScopeOpen(i, "writer")

\* DbReader has __init__, __iter__ and __next__ only.
ReaderMethods == {"__init__", "__iter__", "__next__"}

\* The finally block when the scope is left (how: normally, or by an
\* exception thrown into it).  get_db_reader calls db_reader.close() first,
\* which raises AttributeError when DbReader has no such method, and then the
\* putconn() of the next line is not reached.
ScopeExit(i, how) ==
    /\ scopes[i].st = "open"
    /\ LET closeRaises == scopes[i].kind = "reader" /\ "close" \notin ReaderMethods
       IN  IF closeRaises
           THEN /\ scopes' = [scopes EXCEPT ![i] =
                                [@ EXCEPT !.st = "exited", !.how = "AttributeError"]]
                /\ UNCHANGED checked_out
           ELSE /\ scopes' = [scopes EXCEPT ![i] =
                                [@ EXCEPT !.st = "exited", !.how = how, !.puts = @ + 1]]
                /\ checked_out' = checked_out - 1

\* --------------------------------------------------------- specifications

\* A session nobody opens a scope through.
SessionIdle == InitSession

\* DbUtilities not called directly.
UtilitiesIdle ==
    /\ u_db = [schema |-> FALSE, tables |-> [t \in Tables |-> NoTable], c1 |-> "open"]
    /\ u_call = [op |-> "none"]

\* The Reader before __iter__, for the runs that are about the Writer.
ReaderIdle ==
    /\ table = {}
    /\ cache_max_rows = 1
    /\ sort_ascending = TRUE
    /\ started = FALSE
    /\ row_count = 0
    /\ cache = <<>>
    /\ cache_min = 0
    /\ cache_max = -1
    /\ data_pos = 0
    /\ r_res = "none"
    /\ yielded = <<>>
    /\ read_idx = NoRead
    /\ fetches = <<>>
    /\ count_queries = 0
    /\ ends = 0
    /\ prior = <<-1, -1>>
    /\ mutations = 0

\* The Writer just constructed, for the runs that are about the Reader.
WriterIdle ==
    /\ InitWriter
    /\ db_schema = FALSE
    /\ auto_create_tables = FALSE

\* A Reader over its table, beside a Writer that is not used.
InitOfReader == InitReader /\ WriterIdle /\ SessionIdle /\ UtilitiesIdle

\* A Writer over its database, beside a Reader that is not used.
InitOfWriter == ReaderIdle /\ InitWriter /\ SessionIdle /\ UtilitiesIdle

\* The tables one committed insert or delete away from T.
OneMutation(T) == {T \cup {k} : k \in Keys \ T} \cup {T \ {k} : k \in T}

\* start() with nothing committed between its two queries.
StartQuiet == ReaderStart(TRUE, TRUE, table) /\ UNCHANGED <<wvars, svars, uvars>>

\* start() with one insert or delete committed between its two queries.
StartRaced ==
    /\ mutations < MaxMutations
    /\ \E T2 \in OneMutation(table) : ReaderStart(TRUE, TRUE, T2)
    /\ UNCHANGED <<wvars, svars, uvars>>

StartOk == StartQuiet \/ StartRaced

\* The caller stops calling next() once it has failed more often than there are rows:
\* this only cuts the unbounded repetition of a failing call.  After the
\* end of the sequence it calls next() MaxEnds times at most.
NextOk ==
    /\ Len(fetches) <= MaxKey /\ ends < MaxEnds
    /\ ReaderNext(TRUE)
    /\ UNCHANGED <<wvars, svars, uvars>>

OtherInsert == InsertRow /\ UNCHANGED <<wvars, svars, uvars>>
OtherDelete == DeleteRow /\ UNCHANGED <<wvars, svars, uvars>>

\* The Reader over a table nobody else changes, on a healthy database.
NextReaderStable == StartQuiet \/ NextOk
SpecReaderStable == InitOfReader /\ [][NextReaderStable]_vars

\* The Reader over a table nobody else changes, on a database that may fail
\* any of its queries (execute swallows the failure and returns []); the
\* caller calls next() only after a start() that returned.
StartFaulty ==
    /\ \E countOk \in BOOLEAN, fetchOk \in BOOLEAN : ReaderStart(countOk, fetchOk, table)
    /\ UNCHANGED <<wvars, svars, uvars>>
NextFaulty ==
    /\ started
    /\ Len(fetches) <= MaxKey /\ ends < MaxEnds
    /\ \E fetchOk \in BOOLEAN : ReaderNext(fetchOk)
    /\ UNCHANGED <<wvars, svars, uvars>>

NextReaderFaulty == StartFaulty \/ NextFaulty
SpecReaderFaulty == InitOfReader /\ [][NextReaderFaulty]_vars

\* The Reader with other sessions inserting and deleting, on a healthy database.
NextReader == StartQuiet \/ StartRaced \/ NextOk \/ OtherInsert \/ OtherDelete
SpecReader == InitOfReader /\ [][NextReader]_vars

WNextTable == WriteNextTable /\ UNCHANGED <<rvars, svars, uvars>>
WReturnFalse == WriteReturnFalse /\ UNCHANGED <<rvars, svars, uvars>>

\* The Writer on a healthy database: calls of write_table_data, one after
\* the other; an attempt fails only for what the batch and the state are.
WBegin == WriteBegin(Batches) /\ UNCHANGED <<rvars, svars, uvars>>
WAttempt == WriteAttemptHealthy /\ UNCHANGED <<rvars, svars, uvars>>

NextWriter == WBegin \/ WAttempt \/ WNextTable \/ WReturnFalse
SpecWriter == InitOfWriter /\ [][NextWriter]_vars

\* The first call of a Writer, of a batch of one table at most, with every
\* failure of the database and the network.
SingleBatches == {b \in Batches : Len(b) <= 1}
WBeginFaulty == calls = 0 /\ WriteBegin(SingleBatches) /\ UNCHANGED <<rvars, svars, uvars>>
WAttemptFaulty == WriteAttempt /\ UNCHANGED <<rvars, svars, uvars>>

NextWriterFaulty == WBeginFaulty \/ WAttemptFaulty \/ WNextTable \/ WReturnFalse
SpecWriterFaulty == InitOfWriter /\ [][NextWriterFaulty]_vars

\* The session: scopes are opened and left, in any order.
OpenReaderScope == (\E i \in ScopeIds : get_db_reader(i)) /\ UNCHANGED <<rvars, wvars, uvars>>
OpenWriterScope == (\E i \in ScopeIds : get_db_writer(i)) /\ UNCHANGED <<rvars, wvars, uvars>>
LeaveScope ==
    /\ \E i \in ScopeIds, how \in {"normal", "exception"} : ScopeExit(i, how)
    /\ UNCHANGED <<rvars, wvars, uvars>>

InitOfSession == ReaderIdle /\ WriterIdle /\ InitSession /\ UtilitiesIdle
NextSession == OpenReaderScope \/ OpenWriterScope \/ LeaveScope
SpecSession == InitOfSession /\ [][NextSession]_vars

\* One call of DbUtilities on a database and a connection in any state,
\* with every failure of its statements.
NotCalled == u_call.op = "none"
UExecute == NotCalled /\ CallExecute /\ UNCHANGED <<rvars, wvars, svars>>
URelationExists == NotCalled /\ CallDoesRelationExist /\ UNCHANGED <<rvars, wvars, svars>>
UAddPrimaryKey == NotCalled /\ CallAddPrimaryKey /\ UNCHANGED <<rvars, wvars, svars>>
UCreateIndex == NotCalled /\ CallCreateIndex /\ UNCHANGED <<rvars, wvars, svars>>
UEscapeId == NotCalled /\ CallEscapeId /\ UNCHANGED <<rvars, wvars, svars>>
UInferType == NotCalled /\ CallInferType /\ UNCHANGED <<rvars, wvars, svars>>

InitOfUtilities == ReaderIdle /\ WriterIdle /\ SessionIdle /\ InitUtilities
NextUtilities ==
    \/ UExecute \/ URelationExists \/ UAddPrimaryKey \/ UCreateIndex
    \/ UEscapeId \/ UInferType
SpecUtilities == InitOfUtilities /\ [][NextUtilities]_vars

\* ------------------------------------------------------- Reader claims

\* k comes before j in the configured sort order.
Before(k, j) == IF sort_ascending THEN k < j ELSE k > j

\* C1: over a table that does not change, start() and then next() until the
\* end of the sequence yields exactly R rows; the i-th row yielded is the row
\* at logical offset i of the sorted sequence (the row with exactly i rows
\* before it), every offset once and in order, for every R and page size.
C1_FullIteration ==
    (started /\ r_res \in {"started", "row", "stop"}) =>
        /\ Len(yielded) = data_pos
        /\ \A i \in 1..Len(yielded) :
              /\ yielded[i] \in table
              /\ Cardinality({k \in table : Before(k, yielded[i])}) = i - 1
        /\ r_res = "stop" => Len(yielded) = Cardinality(table)
        /\ r_res # "stop" => Len(yielded) <= Cardinality(table)

\* C1 and never anything but a row or the end of the sequence.
C1_NoError == started => r_res # "error"

C1_Theorem == C1_FullIteration /\ C1_NoError

\* A full iteration over more than one page whose last page is short.
C1_Witness ==
    /\ started /\ r_res = "stop"
    /\ Len(yielded) = Cardinality(table)
    /\ Cardinality(table) > cache_max_rows
    /\ Cardinality(table) % cache_max_rows # 0
    /\ Len(fetches) > 1

\* C2: start() after any number of next() calls re-queries the row count,
\* sets data_pos and cache_min to 0 and replaces the cache by the page at
\* offset 0: the state it leaves is a function of the table alone (of the
\* table as the count query and as the page query find it).
C2_RestartResets ==
    [][StartOk =>
         /\ row_count' = Cardinality(table)
         /\ data_pos' = 0
         /\ cache_min' = 0
         /\ Len(cache') = Min(cache_max_rows, Cardinality(table'))
         /\ \A i \in 1..Len(cache') :
               /\ cache'[i] \in table'
               /\ Cardinality({k \in table' : Before(k, cache'[i])}) = i - 1
         /\ cache_max' = Len(cache') - 1
         /\ yielded' = <<>>]_vars

\* A restart in the middle of an iteration that had moved past the first
\* page, over a table whose size changed since the previous start().
C2_Witness ==
    /\ r_res = "started"
    /\ prior[1] > cache_max_rows
    /\ prior[2] # row_count
    /\ data_pos = 0 /\ cache_min = 0

\* C3: with no rows under the filter at start(), next() signals the end of
\* the sequence: nothing is yielded, the cache is never indexed and no page
\* is fetched beyond the one of start().
C3_EmptyTable ==
    (started /\ row_count = 0) =>
        /\ r_res \in {"started", "stop"}
        /\ yielded = <<>>
        /\ read_idx = NoRead
        /\ fetches = <<0>>

C3_Witness == started /\ row_count = 0 /\ r_res = "stop" /\ table = {}

\* C4: with other sessions inserting and deleting, every next() after
\* start() returns a row or signals the end of the sequence; none fails.
C4_NeverFails == started => r_res # "error"

\* C18: after start() and after every next(), cache_max - cache_min + 1 is
\* the number of rows in the cache, also when the window is the last,
\* shorter page (or an empty one).
C18_WindowMatchesCache == started => cache_max - cache_min + 1 = Len(cache)

\* The window is a last page that is shorter than CACHE_MAX_ROWS.
C18_Witness ==
    /\ started /\ r_res = "row"
    /\ cache_min > 0
    /\ Len(cache) > 0 /\ Len(cache) < cache_max_rows
    /\ cache_max = cache_min + Len(cache) - 1

\* C19: the cache never holds more than CACHE_MAX_ROWS rows: the page of
\* start() and the page of every cache miss is at most that long, and it is
\* the whole cache, which starts at the offset of the last fetch.
C19_CacheBounded ==
    started =>
        /\ Len(cache) <= cache_max_rows
        /\ cache_min = fetches[Len(fetches)]

\* A table of more rows than a page: a full page fetched on a cache miss.
C19_Witness ==
    /\ started /\ r_res = "row"
    /\ Len(fetches) > 1
    /\ Len(cache) = cache_max_rows
    /\ Cardinality(table) > cache_max_rows

\* C20, the states: data_pos stays within 0..row_count and counts the rows
\* yielded since start(), so that an iteration yields row_count rows at most.
C20_PositionBounded ==
    started =>
        /\ 0 <= data_pos /\ data_pos <= row_count
        /\ Len(yielded) = data_pos

\* C20, the steps: next() leaves row_count as start() read it and moves
\* data_pos by one when it returns a row and not at all when it does not.
C20_NextStep ==
    NextOk =>
        /\ row_count' = row_count
        /\ data_pos' = (IF r_res' = "row" THEN data_pos + 1 ELSE data_pos)

\* C20: row_count is read at start() and no next() changes it; data_pos
\* grows by exactly one with each row returned and stays within
\* 0..row_count, whatever other sessions insert after start().
C20_Theorem == []C20_PositionBounded /\ [][C20_NextStep]_vars

\* An iteration that ended after row_count rows over a table that by then
\* held more.
C20_Witness ==
    /\ started /\ r_res = "stop"
    /\ row_count > 0
    /\ Len(yielded) = row_count
    /\ Cardinality(table) > row_count

\* The page fetches one full iteration over row_count rows needs:
\* max(1, ceil(row_count / cache_max_rows)).
PagesNeeded ==
    IF row_count = 0 THEN 1
    ELSE (row_count + cache_max_rows - 1) \div cache_max_rows

\* C24, the states: an iteration has issued one count query, its page
\* fetches are at offsets 0, C, 2C, ..., and when it has ended there are
\* exactly max(1, ceil(R/C)) of them.
C24_QueriesIssued ==
    started =>
        /\ count_queries = 1
        /\ row_count = Cardinality(table)
        /\ \A i \in 1..Len(fetches) : fetches[i] = (i - 1) * cache_max_rows
        /\ Len(fetches) <= PagesNeeded
        /\ (r_res = "stop" => Len(fetches) = PagesNeeded)

\* C24, the steps: next() fetches no page while data_pos lies inside
\* [cache_min, cache_max] and none once data_pos >= row_count.
C24_NextStep ==
    (NextOk /\ started
        /\ (data_pos >= row_count \/ (cache_min <= data_pos /\ data_pos <= cache_max)))
    => fetches' = fetches

\* C24: over an unchanging table with R rows and page size C, one full
\* iteration issues exactly one count query and exactly max(1, ceil(R/C))
\* page fetches, at offsets 0, C, 2C, ...; next() never fetches a page
\* while data_pos lies inside the cached window nor once data_pos >= row_count.
C24_Theorem == []C24_QueriesIssued /\ [][C24_NextStep]_vars

\* A full iteration over three rows in pages of two: fetches at 0 and 2.
C24_Witness ==
    /\ started /\ r_res = "stop"
    /\ row_count = 3 /\ cache_max_rows = 2
    /\ Len(yielded) = 3
    /\ fetches = <<0, 2>>
    /\ count_queries = 1

\* C25: once next() has signalled end-of-sequence, every further next()
\* signals it again, issues no query and leaves data_pos, cache_min,
\* cache_max and the cache as they are, until start() is called again.
C25_EndIsStable ==
    [][(NextOk /\ r_res = "stop" /\ ends > 0) =>
          /\ r_res' = "stop"
          /\ UNCHANGED <<data_pos, cache_min, cache_max, cache, row_count,
                         fetches, count_queries>>]_vars

\* next() was called again after the end of a non-empty sequence, and
\* signalled the end again, while the table had grown by then.
C25_Witness ==
    /\ started /\ r_res = "stop"
    /\ ends = MaxEnds
    /\ row_count > 0
    /\ Cardinality(table) > row_count

\* C21: when the count query or a page fetch fails inside execute, which
\* swallows the failure and returns an empty result, start() and next()
\* raise nothing: the caller gets rows or the end of the sequence.
C21_FailuresSwallowed == r_res # "error"

\* ------------------------------------------------------- Writer claims

\* A call of write_table_data has returned (or raised).
CallOver == pc = "idle" /\ calls > 0

\* C5: for each table write_table_data makes at most max_attempts attempts,
\* numbered 1 to max_attempts; no attempt numbered max_attempts + 1 starts.
C5_AtMostMaxAttempts == \A i \in 1..Len(trace) : trace[i].a <= max_attempts

\* The case of C6: a batch of one table, the first max_attempts - 1 attempts
\* failed and the next one succeeded.
C6_Case ==
    /\ CallOver
    /\ Len(table_data) = 1
    /\ Len(trace) = max_attempts
    /\ \A i \in 1..(max_attempts - 1) : ~trace[i].ok
    /\ trace[max_attempts].ok

\* C6, as the code has it: in that case the call commits exactly one insert,
\* rolls back once for each failed attempt that left the held connection
\* open (max_attempts - 1 times when the connection is never lost), and
\* opens exactly one new connection, for the succeeding attempt, which is
\* attempt max_attempts; that connection is the one inserted on and it is
\* closed after the commit.
C6_Theorem ==
    C6_Case =>
        /\ ret = "true"
        /\ commits = 1
        /\ rollbacks = Cardinality({i \in 1..(max_attempts - 1) : trace[i].st # "closed"})
        /\ rollbacks <= max_attempts - 1
        /\ Len(opened) = 1
        /\ cnn = opened[1]
        /\ conns[cnn] = "closed"

\* One failure that left the connection open, its rollback, then the success.
C6_Witness ==
    /\ C6_Case
    /\ max_attempts = 2
    /\ rollbacks = 1
    /\ commits = 1
    /\ Len(opened) = 1

\* C6 as stated: one committed insert, max_attempts - 1 rollbacks and no new
\* connection.
C6_NoNewConnection ==
    C6_Case =>
        /\ commits = 1
        /\ rollbacks = max_attempts - 1
        /\ opened = <<>>

\* C7: for a batch of one table, when max_attempts attempts in a row fail, a
\* new connection was opened before the last of them, it is closed when
\* write_table_data returns, the call returns False and nothing is committed.
\* Taken where every attempt the call made has failed and it has returned.
C7_FailedCallClosesConnection ==
    (/\ CallOver
     /\ ret # "raised"
     /\ Len(table_data) = 1
     /\ Len(trace) >= max_attempts
     /\ \A i \in 1..Len(trace) : ~trace[i].ok) =>
        /\ Len(opened) = 1
        /\ conns[opened[1]] = "closed"
        /\ ret = "false"
        /\ commits = 0

\* C8: whatever fails, write_table_data returns a boolean and raises nothing,
\* and it returns False when every attempt of every table failed.
C8_ReturnsBoolean ==
    CallOver =>
        /\ ret \in {"true", "false"}
        /\ (\A i \in 1..Len(trace) : ~trace[i].ok) => ret = "false"

\* The case of C9: auto-create is on, the batch has one table with one row
\* (its column names are strings), the schema exists and does not hold the
\* table, and the Writer has not created it.
C9_Case ==
    /\ CallOver
    /\ auto_create_tables
    /\ Len(table_data) = 1
    /\ table_data[1].rows = 1
    /\ ~HasNonStr(table_data[1].cols)
    /\ at_begin.schema
    /\ ~at_begin.tables[table_data[1].name].exists
    /\ table_data[1].name \notin Range(at_begin.created)

\* C9: on a healthy database that call issues CREATE TABLE with 'seq' and then
\* the columns of the first row in their order, then ADD PRIMARY KEY on 'seq',
\* then one INSERT, which it commits, and nothing else; afterwards the table
\* exists with these columns, 'seq' is its primary key and it holds one row.
C9_FirstWriteCreates ==
    C9_Case =>
        LET e == table_data[1]
        IN  /\ ret = "true"
            /\ sql_log = << Stmt("CREATE TABLE", e.name, <<SeqCol>> \o ColNames(e.cols)),
                            Stmt("ADD PRIMARY KEY", e.name, <<SeqCol>>),
                            Stmt("INSERT", e.name, ColNames(e.cols)) >>
            /\ commits = 1
            /\ db_tables[e.name].exists
            /\ ColNames(db_tables[e.name].cols) = <<SeqCol>> \o ColNames(e.cols)
            /\ db_tables[e.name].pk = SeqCol
            /\ db_tables[e.name].rows = 1

\* The batch {"t": [{"a": 1, "b": "x"}]} written into an empty schema.
C9_Witness ==
    /\ C9_Case
    /\ table_data[1].name = "t"
    /\ table_data[1].cols = RowAB
    /\ db_tables["t"].pk = SeqCol
    /\ db_tables["t"].rows = 1
    /\ Len(sql_log) = 3

\* C10, over the life of a Writer: CREATE TABLE is issued and the INSERT
\* template is built at most once for a table name.
C10_AtMostOnce == \A t \in Tables : n_create[t] <= 1 /\ n_build[t] <= 1

\* C10, the second call: a call with the batch of the call before, which
\* returned True, issues no DDL, leaves the cached templates as they were
\* and adds the rows of one table of the batch, one row for a one-row batch.
C10_SecondCall ==
    (CallOver /\ at_begin.repeat) =>
        /\ ret = "true"
        /\ \A i \in 1..Len(sql_log) : sql_log[i].op = "INSERT"
        /\ table_to_statement_map = at_begin.map
        /\ created_tables = at_begin.created
        /\ \E t \in Tables :
              /\ db_tables[t].rows = at_begin.tables[t].rows + table_data[1].rows
              /\ \A u \in Tables \ {t} : db_tables[u] = at_begin.tables[u]

\* C10, the caches: a step appends to the created tables or leaves them, and
\* leaves every template that is cached as it is.
C10_CachesGrow ==
    /\ Len(created_tables) <= Len(created_tables')
    /\ SubSeq(created_tables', 1, Len(created_tables)) = created_tables
    /\ \A t \in Tables :
          table_to_statement_map[t] # NoStmt =>
              table_to_statement_map'[t] = table_to_statement_map[t]

C10_Theorem == [](C10_AtMostOnce /\ C10_SecondCall) /\ [][C10_CachesGrow]_vars

\* The batch of one row for "t", auto-created by the first call, written again.
C10_Witness ==
    /\ CallOver /\ at_begin.repeat
    /\ ret = "true"
    /\ calls = 2
    /\ n_create["t"] = 1
    /\ n_build["t"] = 1
    /\ db_tables["t"].rows = 2

C23_HeldConnectionOpen ==
    CallOver =>
        /\ conns[cnn] = "open"
        /\ \A i \in 1..Len(opened) :
               conns[opened[i]] = "closed" \/ opened[i] = cnn

\* C22: every table in the Writer's created tables exists in the database:
\* a table is recorded only after its CREATE TABLE took effect.
C22_CreatedTablesExist ==
    \A i \in 1..Len(created_tables) : db_tables[created_tables[i]].exists

\* ------------------------------------------------------ Session claims

\* C11: every scope that was left has put its connection back exactly once,
\* however it was left, and the connections checked out of the pool are as
\* many as the scopes that are open.
C11_PoolBalanced ==
    /\ \A i \in ScopeIds : scopes[i].st = "exited" => scopes[i].puts = 1
    /\ checked_out = Cardinality({i \in ScopeIds : scopes[i].st = "open"})

\* ---------------------------------------------------- Utilities claims

\* C12: execute of a SQL string raises nothing; asked for rows it returns
\* the fetched rows when nothing failed and an empty sequence when anything
\* failed; not asked for rows it returns no data, having committed exactly
\* once when nothing failed and not at all when anything failed.
C12_ExecuteContract ==
    (u_call.op = "execute" /\ u_call.query.str) =>
        LET out == u_call.out
        IN  /\ ~out.raised
            /\ u_call.return_results =>
                  out.ret = (IF out.failed THEN "empty" ELSE "rows")
            /\ ~u_call.return_results =>
                  /\ out.ret = "None"
                  /\ out.commits = (IF out.failed THEN 0 ELSE 1)

\* C13: does_relation_exist returns True exactly when the relation exists;
\* when the probe ran and reported that it does not, the result is False.
C13_RelationExists ==
    (u_call.op = "does_relation_exist" /\ u_call.data # <<>>) =>
        u_call.ret = (u_db.schema /\ u_db.tables[u_call.table_name].exists)

\* A call of create_index_on_table or add_primary_key_to_table is recorded.
GuardedOp == u_call.op \in {"create_index_on_table", "add_primary_key_to_table"}

\* The schema, the table and the column named in it all existed.
C14_AllExist ==
    /\ u_call.before.schema
    /\ u_call.before.tables[u_call.table_name].exists
    /\ u_call.column_name \in Range(ColNames(u_call.before.tables[u_call.table_name].cols))

\* C14: create_index_on_table and add_primary_key_to_table issue their DDL
\* only when the schema, the table and the column all exist; when one of
\* them is missing they return False, issue no DDL and raise nothing.
C14_GuardedOperations ==
    GuardedOp =>
        /\ u_call.log # <<>> => C14_AllExist
        /\ ~C14_AllExist =>
              /\ u_call.ret = "False"
              /\ u_call.log = <<>>
              /\ ~u_call.raised

\* The table exists and the column named does not: add_primary_key_to_table
\* returned False without a statement.
C14_Witness ==
    /\ u_call.op = "add_primary_key_to_table"
    /\ u_call.F = {}
    /\ u_call.before.c1 = "open"
    /\ u_call.before.tables[u_call.table_name].exists
    /\ u_call.column_name = "zz"
    /\ u_call.ret = "False"
    /\ u_call.log = <<>>

\* Read from the left, every double quote of s is followed by another one.
RECURSIVE QuotesPaired(_)
QuotesPaired(s) ==
    IF s = <<>> THEN TRUE
    ELSE IF Head(s) # Quote THEN QuotesPaired(Tail(s))
    ELSE Len(s) >= 2 /\ s[2] = Quote /\ QuotesPaired(SubSeq(s, 3, Len(s)))

\* C15: for every identifier, what escape_id returns starts and ends with a
\* double quote; between them there is no semicolon, no period, no '=' and
\* no '--', and every double quote there is one of a doubled pair.
C15_EscapedIdentifier ==
    u_call.op = "escape_id" =>
        LET out == u_call.ret
            interior == SubSeq(out, 2, Len(out) - 1)
        IN  /\ Len(out) >= 2
            /\ out[1] = Quote /\ out[Len(out)] = Quote
            /\ \A i \in 1..Len(interior) : interior[i] \notin {";", ".", "="}
            /\ \A i \in 1..(Len(interior) - 1) :
                  ~(interior[i] = "-" /\ interior[i + 1] = "-")
            /\ QuotesPaired(interior)

\* The identifier -;-" : removing the semicolon brings the dashes together.
C15_Witness ==
    /\ u_call.op = "escape_id"
    /\ u_call.identifier = <<"-", ";", "-", Quote>>
    /\ u_call.ret = <<Quote, Quote, Quote, Quote>>

\* C17: the type inferred for a column of the first row is timestamptz for a
\* timestamp, bool for a boolean, bigint for an integer, double precision
\* for a floating-point number, bytea for bytes and text for anything else.
C17_TypeInference ==
    u_call.op = "infer_type" =>
        u_call.ret = CASE u_call.kind = "datetime" -> "timestamptz"
                       [] u_call.kind = "bool" -> "bool"
                       [] u_call.kind = "int" -> "bigint"
                       [] u_call.kind = "float" -> "double precision"
                       [] u_call.kind = "bytes" -> "bytea"
                       [] OTHER -> "text"

====
